---- MODULE Spec2Model ----
(***************************************************************************)
(* EPCIS transformer: the local engine (xml-converter.ts,                  *)
(* json-converter.ts), the OpenEPCIS client in its three versions          *)
(* (openEpcisClient.ts twice, and the withFallback version), and the       *)
(* command-line entry points that choose between them (cli.ts), the        *)
(* connection test, the migration through the XSLT stylesheet with its     *)
(* downloaded and cached stylesheet file, calls of the local functions     *)
(* that run side by side on the server, the two ...Sync functions, and the *)
(* XML tab of the page (FileUploader.tsx).                                 *)
(*                                                                         *)
(* An XML text is modelled by what DOMParser makes of it: a parse outcome  *)
(* and, when there is a tree, the root element.  An element is a record    *)
(*   [kind, prefix, local, attrs, kids, text]                              *)
(* with attrs a sequence of [name, value] in document order and kids the   *)
(* child nodes in document order.  XMLSerializer followed by DOMParser     *)
(* keeps names, attributes and order; namespaceURI is recomputed from the  *)
(* declarations in scope each time a text is parsed.                       *)
(***************************************************************************)
EXTENDS Integers, Sequences, FiniteSets, TLC

\* ------------------------------------------------------------------ bounds
MaxEvents == 3

\* The number of migrations through the stylesheet that may be in progress at once.
MaxCallers == 2

\* --------------------------------------------------------------- constants
oldNamespace == "urn:epcglobal:epcis:xsd:1"
newNamespace == "urn:epcglobal:epcis:xsd:2"
ContextUri == "https://ref.gs1.org/standards/epcis/2.0.0/epcis-context.jsonld"
NULL == "<null>"

\* ------------------------------------------------------------ DOM helpers
Attr(n, v) == [name |-> n, value |-> v]

Elem(p, l, as, ks, t) ==
  [kind |-> "elem", prefix |-> p, local |-> l, attrs |-> as, kids |-> ks, text |-> t]

Comment(t) ==
  [kind |-> "comment", prefix |-> "", local |-> "#comment", attrs |-> <<>>,
   kids |-> <<>>, text |-> t]

\* Node.nodeName / Element.tagName: the qualified name as written.
nodeName(n) == IF n.prefix = "" THEN n.local ELSE n.prefix \o ":" \o n.local

\* Element.getAttribute: the value, or NULL when the attribute is absent.
getAttribute(e, name) ==
  IF \E i \in 1..Len(e.attrs) : e.attrs[i].name = name
  THEN e.attrs[CHOOSE i \in 1..Len(e.attrs) : e.attrs[i].name = name].value
  ELSE NULL

\* Element.setAttribute: replaces the value in place, or appends.
setAttribute(e, name, value) ==
  IF \E i \in 1..Len(e.attrs) : e.attrs[i].name = name
  THEN [e EXCEPT !.attrs =
          [i \in 1..Len(e.attrs) |->
             IF e.attrs[i].name = name THEN Attr(name, value) ELSE e.attrs[i]]]
  ELSE [e EXCEPT !.attrs = Append(e.attrs, Attr(name, value))]

\* Element.namespaceURI of a root element, from the declarations it carries.
namespaceURI(e) ==
  IF e.prefix = "" THEN getAttribute(e, "xmlns")
  ELSE getAttribute(e, "xmlns:" \o e.prefix)

RECURSIVE Descendants(_)
\* The element descendants of n in document order (n itself excluded).
Descendants(n) ==
  LET RECURSIVE Walk(_, _)
      Walk(ks, i) ==
        IF i > Len(ks) THEN <<>>
        ELSE (IF ks[i].kind = "elem" THEN <<ks[i]>> \o Descendants(ks[i]) ELSE <<>>)
             \o Walk(ks, i + 1)
  IN Walk(n.kids, 1)

\* Element.getElementsByTagName: descendants whose tagName is the given one.
getElementsByTagName(n, tag) == SelectSeq(Descendants(n), LAMBDA d : nodeName(d) = tag)

RECURSIVE textContent(_)
\* Node.textContent: the text of the node and of its descendants, comments aside.
textContent(n) ==
  LET RECURSIVE Cat(_, _)
      Cat(ks, i) ==
        IF i > Len(ks) THEN ""
        ELSE (IF ks[i].kind = "comment" THEN "" ELSE textContent(ks[i])) \o Cat(ks, i + 1)
  IN n.text \o Cat(n.kids, 1)

\* ------------------------------------------------------- texts and outcomes
\* What DOMParser.parseFromString makes of a text: a tree ("ok"), a document
\* without documentElement ("noroot"), or a thrown ParseError ("throws").
XmlText(root) == [fmt |-> "xml", parse |-> "ok", root |-> root, parseMessage |-> ""]

JsonText(json, indent) == [fmt |-> "json", json |-> json, indent |-> indent]

Ok(value) == [kind |-> "ok", value |-> value]

Thrown(type, message) == [kind |-> "err", type |-> type, message |-> message]

ValidationError(message) == Thrown("ValidationError", message)

TransformationError(message) == Thrown("TransformationError", message)

\* Document.getElementsByTagName: the root element counts too.
docGetElementsByTagName(xml, tag) ==
  IF xml.parse # "ok" THEN <<>>
  ELSE (IF nodeName(xml.root) = tag THEN <<xml.root>> ELSE <<>>)
       \o getElementsByTagName(xml.root, tag)

\* utils validateXml: false when the parser throws or leaves a parsererror element.
validateXml(xml) ==
  IF xml.parse = "throws" THEN FALSE
  ELSE Len(docGetElementsByTagName(xml, "parsererror")) = 0

\* a || b on strings: b when a is null or empty.
OrElse(a, b) == IF a = NULL \/ a = "" THEN b ELSE a

\* ------------------------------------------------- xml-converter.ts (migrate)
\* The for loop of lines 56-63: every attribute of the old root is set on the
\* new root, xmlns:epcis with the new namespace instead of its value.
RECURSIVE CopyAttributes(_, _, _)
CopyAttributes(newRoot, attrs, i) ==
  IF i > Len(attrs) THEN newRoot
  ELSE CopyAttributes(
         setAttribute(newRoot, attrs[i].name,
                      IF attrs[i].name = "xmlns:epcis" THEN newNamespace
                      ELSE attrs[i].value),
         attrs, i + 1)

\* Lines 69-72: every child node is imported and appended, in order.
CopyChildren(newRoot, rootElement, options) ==
  [newRoot EXCEPT !.kids = newRoot.kids \o rootElement.kids]

\* The branch of line 50.
UsesNewRoot(rootElement) == namespaceURI(rootElement) = oldNamespace

\* The update as it would be if the copy to a new root were made for every document.
UpdateRoot_AlwaysCopies(rootElement, options) ==
  CopyChildren(
    setAttribute(
      CopyAttributes(Elem("epcis", "EPCISDocument", <<Attr("xmlns:epcis", newNamespace)>>, <<>>, ""),
                     rootElement.attrs, 1),
      "schemaVersion", "2.0"),
    rootElement, options)

\* The update as it would be if schemaVersion were added as one more attribute
\* where the root already carries one.
UpdateRoot_AppendsVersion(rootElement, options) ==
  IF UsesNewRoot(rootElement)
  THEN LET newRoot == Elem("epcis", "EPCISDocument",
                           <<Attr("xmlns:epcis", newNamespace)>>, <<>>, "")
           copied  == CopyAttributes(newRoot, rootElement.attrs, 1)
           stamped == setAttribute(copied, "schemaVersion", "2.0")
       IN CopyChildren(stamped, rootElement, options)
  ELSE [rootElement EXCEPT !.attrs = Append(@, Attr("schemaVersion", "2.0"))]

\* Lines 50-84: the new document, or the old one with schemaVersion set.
UpdateRoot(rootElement, options) ==
  IF UsesNewRoot(rootElement)
  THEN LET newRoot == Elem("epcis", "EPCISDocument",
                           <<Attr("xmlns:epcis", newNamespace)>>, <<>>, "")
           copied  == CopyAttributes(newRoot, rootElement.attrs, 1)
           stamped == setAttribute(copied, "schemaVersion", "2.0")
       IN CopyChildren(stamped, rootElement, options)
  ELSE setAttribute(rootElement, "schemaVersion", "2.0")

\* Lines 16-84, the body of the try block: what it returns or throws.
XmlTryBlock(xml, options) ==
  IF options.validateXml /\ ~validateXml(xml)
    THEN ValidationError("Invalid EPCIS 1.2 XML document")
  ELSE IF xml.parse = "throws"
    THEN Thrown("Error", xml.parseMessage)
  ELSE IF Len(docGetElementsByTagName(xml, "parsererror")) > 0
    THEN ValidationError("XML parsing failed: "
           \o OrElse(textContent(docGetElementsByTagName(xml, "parsererror")[1]),
                     "Unknown error"))
  ELSE IF xml.parse = "noroot"
    THEN ValidationError("Invalid XML document: no root element")
  ELSE IF nodeName(xml.root) # "epcis:EPCISDocument" /\ nodeName(xml.root) # "EPCISDocument"
    THEN ValidationError("Not an EPCIS document")
  ELSE Ok(XmlText(UpdateRoot(xml.root, options)))

\* The catch block as it would be without the wrapping of untyped errors.
XmlCatch_Rethrow(r) == r

\* The catch block as it would be if it wrapped every error it catches.
XmlCatch_WrapAll(r) ==
  IF r.kind = "err" THEN TransformationError("Failed to convert XML: " \o r.message) ELSE r

\* Lines 85-93: typed errors pass, anything else is wrapped.
XmlCatch(r) ==
  IF r.kind = "err" /\ r.type \notin {"ValidationError", "TransformationError"}
  THEN TransformationError("Failed to convert XML: " \o r.message)
  ELSE r

convertToEpcis20Xml(xml, options) == XmlCatch(XmlTryBlock(xml, options))

\* ------------------------------------------------ json-converter.ts (project)
\* A property of a JSON object under construction: a string, a list of
\* strings, an object {id}, or undefined.
Field(k, t, v, list) == [k |-> k, t |-> t, v |-> v, list |-> list]

StrField(k, v) == Field(k, "str", v, <<>>)

\* String.split(':') for a name with at most one colon.
SplitColon(s, prefixes, locals) ==
  IF \E p \in prefixes, l \in locals : p \o ":" \o l = s
  THEN LET pl == CHOOSE pl \in prefixes \X locals : pl[1] \o ":" \o pl[2] = s
       IN <<pl[1], pl[2]>>
  ELSE <<s>>

EventPrefixes == {"epcis"}

EventNames ==
  {"ObjectEvent", "AggregationEvent", "TransactionEvent", "TransformationEvent",
   "AssociationEvent"}

\* eventType.split(':')[1] of line 116: the part after the colon, or undefined.
TypeField(eventType) ==
  LET parts == SplitColon(eventType, EventPrefixes, EventNames)
  IN IF Len(parts) >= 2 THEN StrField("type", parts[2])
     ELSE Field("type", "undef", "", <<>>)

\* getElementTextContent: the text of the first matching descendant, or null.
getElementTextContent(parent, tagName) ==
  LET elements == getElementsByTagName(parent, tagName)
  IN IF Len(elements) > 0 /\ textContent(elements[1]) # ""
     THEN textContent(elements[1]) ELSE NULL

\* if (x) eventObj.k = x
TextFieldOf(event, tagName) ==
  LET x == getElementTextContent(event, tagName)
  IN IF x # NULL THEN <<StrField(tagName, x)>> ELSE <<>>

\* The epcList as it would be if the property were set only when an epc was found.
EpcListFieldOf_OmitsEmpty(event) ==
  LET lists == getElementsByTagName(event, "epcList")
  IN IF Len(lists) = 0 THEN <<>>
     ELSE LET epcs  == getElementsByTagName(lists[1], "epc")
              texts == [j \in 1..Len(epcs) |-> textContent(epcs[j])]
          IN IF SelectSeq(texts, LAMBDA t : t # "") = <<>> THEN <<>>
             ELSE <<Field("epcList", "list", "", SelectSeq(texts, LAMBDA t : t # ""))>>

\* Lines 140-148: the texts of the epc descendants of the first epcList.
EpcListFieldOf(event) ==
  LET lists == getElementsByTagName(event, "epcList")
  IN IF Len(lists) = 0 THEN <<>>
     ELSE LET epcs  == getElementsByTagName(lists[1], "epc")
              texts == [j \in 1..Len(epcs) |-> textContent(epcs[j])]
          IN <<Field("epcList", "list", "", SelectSeq(texts, LAMBDA t : t # ""))>>

\* Lines 163-174: readPoint and bizLocation, as {id} when an id is found.
IdFieldOf(event, tagName) ==
  LET holders == getElementsByTagName(event, tagName)
  IN IF Len(holders) = 0 THEN <<>>
     ELSE LET id == getElementTextContent(holders[1], "id")
          IN IF id # NULL THEN <<Field(tagName, "obj", id, <<>>)>> ELSE <<>>

\* processEventFields: the properties added to eventObj, in assignment order.
processEventFields(event, eventObj) ==
  eventObj
    \o TextFieldOf(event, "eventTime")
    \o TextFieldOf(event, "eventTimeZoneOffset")
    \o EpcListFieldOf(event)
    \o TextFieldOf(event, "action")
    \o TextFieldOf(event, "bizStep")
    \o TextFieldOf(event, "disposition")
    \o IdFieldOf(event, "readPoint")
    \o IdFieldOf(event, "bizLocation")

\* processEvents: one object per matching descendant, pushed in document order.
processEvents(eventList, eventType, resultArray) ==
  LET events == getElementsByTagName(eventList, eventType)
  IN resultArray
       \o [i \in 1..Len(events) |-> processEventFields(events[i], <<TypeField(eventType)>>)]

\* Lines 73-86: the ten scans, in the order written.
EventTypeScans ==
  <<"epcis:ObjectEvent", "ObjectEvent",
    "epcis:AggregationEvent", "AggregationEvent",
    "epcis:TransactionEvent", "TransactionEvent",
    "epcis:TransformationEvent", "TransformationEvent",
    "epcis:AssociationEvent", "AssociationEvent">>

RECURSIVE ScanAll(_, _, _)
ScanAll(eventList, k, resultArray) ==
  IF k > Len(EventTypeScans) THEN resultArray
  ELSE ScanAll(eventList, k + 1, processEvents(eventList, EventTypeScans[k], resultArray))

\* a[0] || b[0] over two getElementsByTagName results.
FirstOf(a, b) == IF Len(a) > 0 THEN <<a[1]>> ELSE IF Len(b) > 0 THEN <<b[1]>> ELSE <<>>

\* Lines 59-88: the eventList of the output.
CollectEvents(documentElement) ==
  LET epcisBody == FirstOf(getElementsByTagName(documentElement, "epcis:EPCISBody"),
                           getElementsByTagName(documentElement, "EPCISBody"))
  IN IF epcisBody = <<>> THEN <<>>
     ELSE LET eventList == FirstOf(getElementsByTagName(epcisBody[1], "epcis:EventList"),
                                   getElementsByTagName(epcisBody[1], "EventList"))
          IN IF eventList = <<>> THEN <<>> ELSE ScanAll(eventList[1], 1, <<>>)

\* JSON.stringify on an event object: properties whose value is undefined are left out.
StringifyEvent(eventObj) == SelectSeq(eventObj, LAMBDA f : f.t # "undef")

\* The object as it would be built if epcisBody were created only for a
\* document that has an EPCISBody element.
BuildJsonLd_BodyOnlyIfPresent(documentElement, options, now) ==
  LET events == CollectEvents(documentElement)
      body   == FirstOf(getElementsByTagName(documentElement, "epcis:EPCISBody"),
                        getElementsByTagName(documentElement, "EPCISBody"))
  IN JsonText(
       [context      |-> IF options.includeContext THEN <<ContextUri>> ELSE <<>>,
        type         |-> "EPCISDocument",
        schemaVersion |-> OrElse(getAttribute(documentElement, "schemaVersion"), "2.0"),
        creationDate |-> OrElse(getAttribute(documentElement, "creationDate"), now),
        epcisBody    |-> IF body = <<>> THEN <<>>
                         ELSE <<[eventList |-> [i \in 1..Len(events) |-> StringifyEvent(events[i])]]>>],
       IF options.prettyPrint THEN 2 ELSE 0)

\* Lines 46-95: the object built and serialised.
BuildJsonLd(documentElement, options, now) ==
  LET events == CollectEvents(documentElement)
  IN JsonText(
       [context      |-> IF options.includeContext THEN <<ContextUri>> ELSE <<>>,
        type         |-> "EPCISDocument",
        schemaVersion |-> OrElse(getAttribute(documentElement, "schemaVersion"), "2.0"),
        creationDate |-> OrElse(getAttribute(documentElement, "creationDate"), now),
        epcisBody    |-> <<[eventList |-> [i \in 1..Len(events) |-> StringifyEvent(events[i])]]>>],
       IF options.prettyPrint THEN 2 ELSE 0)

\* Lines 16-95, the body of the try block.
JsonTryBlock(xml, options, now) ==
  IF ~validateXml(xml)
    THEN ValidationError("Invalid EPCIS 2.0 XML document")
  ELSE IF xml.parse = "throws"
    THEN Thrown("Error", xml.parseMessage)
  ELSE IF Len(docGetElementsByTagName(xml, "parsererror")) > 0
    THEN ValidationError("XML parsing failed: "
           \o OrElse(textContent(docGetElementsByTagName(xml, "parsererror")[1]),
                     "Unknown error"))
  ELSE IF xml.parse = "noroot"
    THEN ValidationError("Invalid XML document structure - no document element")
  ELSE Ok(BuildJsonLd(xml.root, options, now))

\* Lines 96-104.
JsonCatch(r) ==
  IF r.kind = "err" /\ r.type \notin {"ValidationError", "TransformationError"}
  THEN TransformationError("Failed to convert to JSON-LD: " \o r.message)
  ELSE r

convertToJsonLd(xml, options, now) == JsonCatch(JsonTryBlock(xml, options, now))

\* ------------------------------------------------------------ sample texts
\* An event element: its tag as written, an eventTime that tells it apart, an action.
EventElem(prefix, local, time) ==
  Elem(prefix, local, <<>>,
       <<Elem("", "eventTime", <<>>, <<>>, time), Elem("", "action", <<>>, <<>>, "ADD")>>, "")

BodyOf(prefix, events) ==
  Elem(prefix, "EPCISBody", <<>>, <<Elem(prefix, "EventList", <<>>, events, "")>>, "")

\* The document of the end-to-end example: version 1, one ObjectEvent.
ExampleV1 ==
  XmlText(Elem("epcis", "EPCISDocument",
               <<Attr("xmlns:epcis", oldNamespace), Attr("schemaVersion", "1.2")>>,
               <<BodyOf("epcis", <<EventElem("epcis", "ObjectEvent", "2024-01-01T00:00:00Z")>>)>>,
               ""))

ExampleV2 ==
  XmlText(Elem("epcis", "EPCISDocument",
               <<Attr("xmlns:epcis", newNamespace), Attr("schemaVersion", "2.0"),
                 Attr("creationDate", "2024-02-02T00:00:00Z")>>,
               <<BodyOf("", <<EventElem("", "ObjectEvent", "t1"),
                              EventElem("epcis", "AggregationEvent", "t2")>>)>>,
               ""))

NotEpcis == XmlText(Elem("", "html", <<>>, <<Elem("", "body", <<>>, <<>>, "hello")>>, ""))

WithParserError ==
  XmlText(Elem("epcis", "EPCISDocument", <<Attr("xmlns:epcis", newNamespace)>>,
               <<Elem("", "parsererror", <<>>, <<>>, "unclosed tag")>>, ""))

NoElem == Elem("", "", <<>>, <<>>, "")

\* A text the parser throws on, and one it returns no documentElement for.
Malformed == [fmt |-> "xml", parse |-> "throws", root |-> NoElem, parseMessage |-> "unclosed xml tag"]

NoRoot == [fmt |-> "xml", parse |-> "noroot", root |-> NoElem, parseMessage |-> ""]

CoordTexts == {ExampleV1, ExampleV2, NotEpcis, WithParserError, Malformed, NoRoot}

XmlOptionSets == [validateXml : BOOLEAN, preserveComments : BOOLEAN]

JsonOptionSets == [prettyPrint : BOOLEAN, includeContext : BOOLEAN]

DefaultXmlOptions == [validateXml |-> FALSE, preserveComments |-> FALSE]

Clocks == {"2026-01-01T00:00:00.000Z"}

\* What the remote service may answer with: texts for the migration
\* endpoints, JSON values for the projection endpoints.
RemoteXmlData == {ExampleV2, Malformed}

RemoteJsonData ==
  {[context |-> <<ContextUri>>, type |-> "EPCISDocument", schemaVersion |-> "2.0",
    creationDate |-> "2020-01-01T00:00:00Z", epcisBody |-> <<[eventList |-> <<>>]>>],
   [context |-> <<>>, type |-> "Other", schemaVersion |-> "", creationDate |-> "",
    epcisBody |-> <<>>]}

\* How an axios call fails: a status answer, no answer, or a plain exception.
RemoteFailures ==
  {[axios |-> TRUE, status |-> "400", message |-> "Request failed with status code 400"],
   [axios |-> TRUE, status |-> "500", message |-> "Request failed with status code 500"],
   [axios |-> TRUE, status |-> "undefined", message |-> "Network Error"],
   [axios |-> FALSE, status |-> "undefined", message |-> ""]}

\* ---------------------------------------------------------------- state
VARIABLES
  impl,     \* the version of OpenEpcisClient in use: "fallback", "api" or "q"
  pc,       \* where the running command is: idle, remote, local, done, failed
  req,      \* the command: op, remote (-r), xml, xmlOptions, jsonOptions
  step,     \* the conversion in progress: migrate, project, or direct (one call)
  cur,      \* the text given to the conversion in progress
  calls,    \* the backend calls of this command so far, in order
  result,   \* what the command's await resolved or rejected with
  clock,    \* new Date().toISOString() during this command
  eIn,      \* engine runs: the input text
  eXo,      \* engine runs: the XmlTransformOptions
  eJo,      \* engine runs: the JsonLdTransformOptions
  eMig,     \* engine runs: the outcome of convertToEpcis20Xml, once called
  eJson,    \* engine runs: the outcome of convertToJsonLd, once called
  probePc,  \* testConnection: idle, or waiting for the answer to its GET
  lastProbe, \* what the last call of testConnection returned or threw
  xslFile,  \* the file at XSL_PATH: absent, empty, partial or complete
  xFetched, \* whether a download of the stylesheet has run to its end
  xCalls,   \* the calls of the stylesheet migration: pc, xml, options, used, out
  xStarted, \* how many downloads of the stylesheet were started: none, one, many
  tCalls,   \* the calls of the local functions that are in progress side by side
  eSync,    \* engine runs: the outcomes of the two ...Sync functions, once called
  eAgain,   \* engine runs: the outcome of convertToEpcis20Xml on its own result
  xmlFile,  \* the page: useState xmlFile
  xmlFileContent, \* the page: useState xmlFileContent
  xmlResult, \* the page: useState xmlResult
  xmlProcessing, \* the page: useState xmlProcessing
  xmlReads, \* the page: the readFileAsText promises that have not settled
  xmlJob    \* the page: the handleXmlTransform that is waiting for its request

coordVars == <<impl, pc, req, step, cur, calls, result, clock>>

engineVars == <<eIn, eXo, eJo, eMig, eJson>>

probeVars == <<probePc, lastProbe>>

\* The variables that the commands and the engine runs leave alone.
xsltVars == <<xslFile, xFetched, xCalls, xStarted>>

uiVars == <<xmlFile, xmlFileContent, xmlResult, xmlProcessing, xmlReads, xmlJob>>

lateVars == <<tCalls, eSync, eAgain, uiVars>>

restVars == <<probePc, lastProbe, xsltVars, lateVars>>

vars == <<impl, pc, req, step, cur, calls, result, clock, eIn, eXo, eJo, eMig, eJson, restVars>>

Impls == {"fallback", "api", "q"}

Ops == {"migrate", "project", "direct"}

NoReq ==
  [op |-> "none", remote |-> FALSE, xml |-> NoRoot, xmlOptions |-> DefaultXmlOptions,
   jsonOptions |-> [prettyPrint |-> TRUE, includeContext |-> TRUE]]

NoOutcome == [kind |-> "none"]

\* -------------------------------------------------- cli.ts and the clients
\* The entry point as it would be if every command went to the client.
EntryPc_AlwaysRemote(remote) == "remote"

\* The entry point as it would be if a failed connection test sent the command
\* to the local functions.
EntryPc_GatedByProbe(remote) ==
  IF remote /\ lastProbe # Ok(FALSE) THEN "remote" ELSE "local"

\* The entry point as it would be if the local function were tried first.
EntryPc_LocalFirst(remote) == "local"

\* cli.ts lines 49-61, 94-106, 139-153: -r goes to openEpcisClient, otherwise
\* the local functions are called directly.
EntryPc(remote) == IF remote THEN "remote" ELSE "local"

\* The first conversion of a command.  The first version of
\* openEpcisClient.ts posts a version-1 text to /convert/json/1.2 in one call;
\* everything else starts a direct conversion with the migration.
FirstStep(version, op, remote) ==
  IF op = "direct" THEN (IF remote /\ version = "api" THEN "direct" ELSE "migrate")
  ELSE op

\* convertFrom12ToJsonLd calls convertToEpcis20Xml(xml) without options, and so
\* does cli.ts line 148: the migration of a direct conversion runs on the defaults.
StepXmlOptions(r) == IF r.op = "direct" THEN DefaultXmlOptions ELSE r.xmlOptions

\* The URL path each version posts to.
Endpoint(version, s) ==
  IF version = "api"
  THEN (IF s = "migrate" THEN "/convert/xml/2.0"
        ELSE IF s = "project" THEN "/convert/json/2.0" ELSE "/convert/json/1.2")
  ELSE (IF s = "migrate" THEN "/translator/1.2/2.0/xml"
        ELSE "/converter/epcis-document/xml/json")

\* withFallback: the version that catches a failed apiMethod and runs fallbackMethod.
HasFallback(version) == version = "fallback"

\* openEpcisClient.ts lines 37-41, 70-74, 104-108: any failure becomes a TransformationError.
ApiCatch(f) == TransformationError("OpenEPCIS API Error: " \o OrElse(f.message, "Unknown error"))

\* openEpcisClient.ts lines 166-178 and 207-219.
QCatch(s, f) ==
  IF f.axios
  THEN (IF f.status = "400"
        THEN ValidationError((IF s = "migrate" THEN "Invalid EPCIS 1.2 XML: "
                              ELSE "Invalid EPCIS 2.0 XML: ") \o f.message)
        ELSE TransformationError("API Error (" \o f.status \o "): " \o f.message))
  ELSE TransformationError((IF s = "migrate" THEN "Failed to convert XML: "
                            ELSE "Failed to convert to JSON-LD: ") \o f.message)

\* What a successful post returns: response.data for a migration, and
\* JSON.stringify(response.data, null, 2) or JSON.stringify(response.data) otherwise.
RemoteValue(s, data, jsonOptions) ==
  IF s = "migrate" THEN data
  ELSE JsonText(data, IF jsonOptions.prettyPrint THEN 2 ELSE 0)

\* The local function of a step.
LocalOutcome(s, xml, r, now) ==
  IF s = "migrate" THEN convertToEpcis20Xml(xml, StepXmlOptions(r))
  ELSE convertToJsonLd(xml, r.jsonOptions, now)

Call(backend, s, endpoint, input, out) ==
  [backend |-> backend, step |-> s, endpoint |-> endpoint, input |-> input, out |-> out]

\* The direct conversion as it would be if the projection were given the
\* text the command started with.
StepReturns_KeepsInput(value) ==
  IF req.op = "direct" /\ step = "migrate"
  THEN /\ step' = "project"
       /\ pc' = EntryPc(req.remote)
       /\ UNCHANGED <<cur, result>>
  ELSE /\ pc' = "done"
       /\ result' = Ok(value)
       /\ UNCHANGED <<step, cur>>

\* A conversion returned value: the command is done, or, in a direct conversion
\* after the migration, the projection starts on the value just returned.
StepReturns(value) ==
  IF req.op = "direct" /\ step = "migrate"
  THEN /\ step' = "project"
       /\ cur' = value
       /\ pc' = EntryPc(req.remote)
       /\ UNCHANGED result
  ELSE /\ pc' = "done"
       /\ result' = Ok(value)
       /\ UNCHANGED <<step, cur>>

\* A conversion threw: the await in the command rejects with the error.
StepThrows(error) ==
  /\ pc' = "failed"
  /\ result' = error
  /\ UNCHANGED <<step, cur>>

\* ---------------------------------------------------------------- actions
Request(op, remote, xml, xo, jo, now) ==
  /\ pc = "idle"
  /\ req' = [op |-> op, remote |-> remote, xml |-> xml, xmlOptions |-> xo, jsonOptions |-> jo]
  /\ step' = FirstStep(impl, op, remote)
  /\ cur' = xml
  /\ pc' = EntryPc(remote)
  /\ calls' = <<>>
  /\ result' = NoOutcome
  /\ clock' = now
  /\ UNCHANGED <<restVars, impl, eIn, eXo, eJo, eMig, eJson>>

\* axios.post resolved.
RemoteSucceeds(data) ==
  /\ pc = "remote"
  /\ data \in (IF step = "migrate" THEN RemoteXmlData ELSE RemoteJsonData)
  /\ LET value == RemoteValue(step, data, req.jsonOptions)
     IN /\ calls' = Append(calls, Call("remote", step, Endpoint(impl, step), cur, Ok(value)))
        /\ StepReturns(value)
  /\ UNCHANGED <<restVars, impl, req, clock, eIn, eXo, eJo, eMig, eJson>>

\* axios.post rejected.
RemoteFails(f) ==
  /\ pc = "remote"
  /\ calls' = Append(calls, Call("remote", step, Endpoint(impl, step), cur,
                                 Thrown("RemoteFailure", f.message)))
  /\ IF HasFallback(impl)
     THEN pc' = "local" /\ UNCHANGED <<step, cur, result>>
     ELSE StepThrows(IF impl = "api" THEN ApiCatch(f) ELSE QCatch(step, f))
  /\ UNCHANGED <<restVars, impl, req, clock, eIn, eXo, eJo, eMig, eJson>>

\* The local function runs: as the fallback, or because the command is local.
LocalRuns ==
  /\ pc = "local"
  /\ LET out == LocalOutcome(step, cur, req, clock)
     IN /\ calls' = Append(calls, Call("local", step, "", cur, out))
        /\ IF out.kind = "ok" THEN StepReturns(out.value) ELSE StepThrows(out)
  /\ UNCHANGED <<restVars, impl, req, clock, eIn, eXo, eJo, eMig, eJson>>

\* The command printed its result or its error; the next one may start.
Return ==
  /\ pc \in {"done", "failed"}
  /\ pc' = "idle"
  /\ req' = NoReq
  /\ step' = "none"
  /\ cur' = NoRoot
  /\ calls' = <<>>
  /\ result' = NoOutcome
  /\ UNCHANGED <<restVars, impl, clock, eIn, eXo, eJo, eMig, eJson>>

\* ------------------------------------- the migration through the stylesheet
\* convertToEpcis20Xml in its XSLT version: ensureXslTransform, downloadFile,
\* fs.readFile and SaxonJS.transform.  Each await is a step; calls interleave.
Callers == 1..MaxCallers

NoCall ==
  [pc |-> "idle", xml |-> NoRoot, options |-> DefaultXmlOptions, found |-> "none",
   used |-> "none", fetch |-> "none", out |-> NoOutcome]

XsltTexts == {ExampleV1, Malformed}

XsltOptionSets == {o \in XmlOptionSets : ~o.preserveComments}

\* How https.get fails to deliver: an answer with another status, or an 'error' event.
StatusMessages == {"Not Found"}

NetworkErrors == {"getaddrinfo ENOTFOUND ref.gs1.org"}

\* What SaxonJS.transform returns when it returns.
SaxonResults == {ExampleV2}

\* The catch block of lines 48-56: typed errors pass, anything else is wrapped.
XsltCatch(r) ==
  IF r.kind = "err" /\ r.type \notin {"ValidationError", "TransformationError"}
  THEN TransformationError("Failed to convert XML: " \o r.message)
  ELSE r

\* Another call has the file open for writing.  A call records in found what
\* readFile met: no file, a file another call is writing, or a file at rest.
OtherWriter(c) == \E d \in Callers \ {c} : xCalls[d].pc \in {"fetching", "piping"}

XsltFails(c, error) ==
  xCalls' = [xCalls EXCEPT ![c].pc = "failed", ![c].out = XsltCatch(error)]

\* Lines 14-22: the call starts; the validation of line 20 may end it.
XsltCall(c, xml, options) ==
  /\ xCalls[c].pc = "idle"
  /\ IF options.validateXml /\ ~validateXml(xml)
     THEN xCalls' = [xCalls EXCEPT ![c] = [NoCall EXCEPT !.pc = "failed", !.xml = xml,
                       !.options = options,
                       !.out = XsltCatch(ValidationError("Invalid EPCIS 1.2 XML document"))]]
     ELSE xCalls' = [xCalls EXCEPT ![c] = [NoCall EXCEPT !.pc = "ensure", !.xml = xml,
                       !.options = options]]
  /\ UNCHANGED <<xslFile, xFetched, xStarted>>
  /\ UNCHANGED <<coordVars, engineVars, probeVars, lateVars>>

\* ensureXslTransform lines 103-108: readFile(xslPath) resolves when the file
\* exists, whatever it holds; when it rejects the download starts.
EnsureReadsCache(c) ==
  /\ xCalls[c].pc = "ensure"
  /\ xCalls' = [xCalls EXCEPT ![c].pc = IF xslFile # "absent" THEN "read" ELSE "download",
                               ![c].found = IF xslFile = "absent" THEN "absent"
                                            ELSE IF OtherWriter(c) THEN "open" ELSE "closed"]
  /\ UNCHANGED <<xslFile, xFetched, xStarted>>
  /\ UNCHANGED <<coordVars, engineVars, probeVars, lateVars>>

\* downloadFile lines 75-81: createWriteStream creates or truncates the file,
\* https.get is sent.
DownloadOpens(c) ==
  /\ xCalls[c].pc = "download"
  /\ xslFile' = "empty"
  /\ xStarted' = IF xStarted = "none" THEN "one" ELSE "many"
  /\ xCalls' = [xCalls EXCEPT ![c].pc = "fetching"]
  /\ UNCHANGED xFetched
  /\ UNCHANGED <<coordVars, engineVars, probeVars, lateVars>>

\* Lines 82-85: an answer with a status other than 200 rejects; the file stays.
DownloadStatusNot200(c, statusMessage) ==
  /\ xCalls[c].pc = "fetching"
  /\ xCalls' = [xCalls EXCEPT ![c].pc = "failed", ![c].fetch = "failed",
                  ![c].out = XsltCatch(Thrown("Error", "Failed to download file: " \o statusMessage))]
  /\ UNCHANGED <<xslFile, xFetched, xStarted>>
  /\ UNCHANGED <<coordVars, engineVars, probeVars, lateVars>>

\* Lines 92-95: the request's 'error' event unlinks the file and rejects.
DownloadNetworkError(c, message) ==
  /\ xCalls[c].pc = "fetching"
  /\ xslFile' = "absent"
  /\ xCalls' = [xCalls EXCEPT ![c].pc = "failed", ![c].fetch = "failed",
                  ![c].out = XsltCatch(Thrown("Error", message))]
  /\ UNCHANGED <<xFetched, xStarted>>
  /\ UNCHANGED <<coordVars, engineVars, probeVars, lateVars>>

\* Line 87: status 200, the body is piped into the file.
DownloadPipes(c) ==
  /\ xCalls[c].pc = "fetching"
  /\ xslFile' = "partial"
  /\ xCalls' = [xCalls EXCEPT ![c].pc = "piping"]
  /\ UNCHANGED <<xFetched, xStarted>>
  /\ UNCHANGED <<coordVars, engineVars, probeVars, lateVars>>

\* Lines 88-91: 'finish' closes the file and resolves.  The file holds the
\* whole stylesheet unless another call has it open for writing as well.
DownloadFinishes(c) ==
  /\ xCalls[c].pc = "piping"
  /\ xslFile' = IF OtherWriter(c) THEN "partial" ELSE "complete"
  /\ xFetched' = TRUE
  /\ xCalls' = [xCalls EXCEPT ![c].pc = "read", ![c].fetch = "done"]
  /\ UNCHANGED xStarted
  /\ UNCHANGED <<coordVars, engineVars, probeVars, lateVars>>

\* The body stops before its end: the response has no 'error' handler, so
\* 'finish' never comes and the promise of downloadFile never settles.
DownloadBodyAborts(c) ==
  /\ xCalls[c].pc = "piping"
  /\ xCalls' = [xCalls EXCEPT ![c].pc = "stuck", ![c].fetch = "failed"]
  /\ UNCHANGED <<xslFile, xFetched, xStarted>>
  /\ UNCHANGED <<coordVars, engineVars, probeVars, lateVars>>

\* Line 30: fs.readFile(xslFilePath) gives what the file holds now, or rejects
\* when the file is gone.
ReadStylesheet(c) ==
  /\ xCalls[c].pc = "read"
  /\ IF xslFile = "absent"
     THEN XsltFails(c, Thrown("Error", "ENOENT: no such file or directory"))
     ELSE xCalls' = [xCalls EXCEPT ![c].pc = "transform", ![c].used = xslFile]
  /\ UNCHANGED <<xslFile, xFetched, xStarted>>
  /\ UNCHANGED <<coordVars, engineVars, probeVars, lateVars>>

\* Lines 33-47: SaxonJS.transform returns the serialised result or throws; what
\* it makes of a stylesheet text that is empty or cut short is its own affair.
SaxonTransform(c, returns, text) ==
  /\ xCalls[c].pc = "transform"
  /\ IF returns /\ xCalls[c].xml.parse = "ok"
     THEN xCalls' = [xCalls EXCEPT ![c].pc = "done", ![c].out = Ok(text)]
     ELSE XsltFails(c, Thrown("Error", "SaxonJS: transformation failed"))
  /\ UNCHANGED <<xslFile, xFetched, xStarted>>
  /\ UNCHANGED <<coordVars, engineVars, probeVars, lateVars>>

\* The caller has its result; the next call may start.
XsltReturn(c) ==
  /\ xCalls[c].pc \in {"done", "failed"}
  /\ xCalls' = [xCalls EXCEPT ![c] = NoCall]
  /\ UNCHANGED <<xslFile, xFetched, xStarted>>
  /\ UNCHANGED <<coordVars, engineVars, probeVars, lateVars>>

\* ------------------------------------------------------- the state at rest
\* A call of a local function that has not started.
NoTransform ==
  [pc |-> "idle", op |-> "none", xml |-> NoRoot, xmlOptions |-> DefaultXmlOptions,
   jsonOptions |-> NoReq.jsonOptions, now |-> "", doc |-> NoRoot, out |-> NoOutcome]

NoSync == [xml |-> NoOutcome, json |-> NoOutcome]

\* useState<string | null>(null): no text.
NoContent == [fmt |-> "null"]

NoJob == [pc |-> "none", content |-> NoContent, options |-> DefaultXmlOptions]

\* The variables of the sections below as they are before anything ran: the
\* page shows no file and no result, as its useState calls say (lines 669-677).
LateInit ==
  /\ tCalls = [c \in Callers |-> NoTransform]
  /\ eSync = NoSync
  /\ eAgain = NoOutcome
  /\ xmlFile = NULL
  /\ xmlFileContent = NoContent
  /\ xmlResult = NoContent
  /\ xmlProcessing = FALSE
  /\ xmlReads = {}
  /\ xmlJob = NoJob

XsltInit ==
  /\ impl = "fallback"
  /\ pc = "idle"
  /\ req = NoReq
  /\ step = "none"
  /\ cur = NoRoot
  /\ calls = <<>>
  /\ result = NoOutcome
  /\ clock \in Clocks
  /\ eIn = NoRoot
  /\ eXo = DefaultXmlOptions
  /\ eJo = NoReq.jsonOptions
  /\ eMig = NoOutcome
  /\ eJson = NoOutcome
  /\ probePc = "idle"
  /\ lastProbe = NoOutcome
  /\ xslFile = "absent"
  /\ xFetched = FALSE
  /\ xCalls = [c \in Callers |-> NoCall]
  /\ xStarted = "none"
  /\ LateInit

XsltNext ==
  \/ \E c \in Callers, xml \in XsltTexts, options \in XsltOptionSets : XsltCall(c, xml, options)
  \/ \E c \in Callers : EnsureReadsCache(c)
  \/ \E c \in Callers : DownloadOpens(c)
  \/ \E c \in Callers, m \in StatusMessages : DownloadStatusNot200(c, m)
  \/ \E c \in Callers, m \in NetworkErrors : DownloadNetworkError(c, m)
  \/ \E c \in Callers : DownloadPipes(c)
  \/ \E c \in Callers : DownloadFinishes(c)
  \/ \E c \in Callers : DownloadBodyAborts(c)
  \/ \E c \in Callers : ReadStylesheet(c)
  \/ \E c \in Callers, returns \in BOOLEAN, text \in SaxonResults : SaxonTransform(c, returns, text)
  \/ \E c \in Callers : XsltReturn(c)

XsltSpec == XsltInit /\ [][XsltNext]_vars

\* The URL testConnection gets in each version of the client.
ProbeEndpoint(version) ==
  IF version = "fallback" THEN "/200" ELSE IF version = "api" THEN "/convert" ELSE "/health"

\* testConnection: true when the GET resolved, false from the catch block.
testConnection(get) == IF get.kind = "ok" THEN Ok(TRUE) ELSE Ok(FALSE)

\* testConnection is called (the test-connection command, or the route the
\* page calls when its tab opens); commands may be running meanwhile.
ProbeStarts ==
  /\ probePc = "idle"
  /\ probePc' = "waiting"
  /\ UNCHANGED <<lastProbe, xsltVars, lateVars, impl, pc, req, step, cur, calls, result, clock,
                 eIn, eXo, eJo, eMig, eJson>>

\* axios.get resolved.
ProbeSucceeds ==
  /\ probePc = "waiting"
  /\ probePc' = "idle"
  /\ lastProbe' = testConnection(Ok(ProbeEndpoint(impl)))
  /\ UNCHANGED <<xsltVars, lateVars, impl, pc, req, step, cur, calls, result, clock, eIn, eXo, eJo, eMig, eJson>>

\* axios.get rejected.
ProbeFails(f) ==
  /\ probePc = "waiting"
  /\ probePc' = "idle"
  /\ lastProbe' = testConnection(Thrown("RemoteFailure", f.message))
  /\ UNCHANGED <<xsltVars, lateVars, impl, pc, req, step, cur, calls, result, clock, eIn, eXo, eJo, eMig, eJson>>

Init ==
  /\ impl \in Impls
  /\ pc = "idle"
  /\ req = NoReq
  /\ step = "none"
  /\ cur = NoRoot
  /\ calls = <<>>
  /\ result = NoOutcome
  /\ clock \in Clocks
  /\ eIn = NoRoot
  /\ eXo = DefaultXmlOptions
  /\ eJo = NoReq.jsonOptions
  /\ eMig = NoOutcome
  /\ eJson = NoOutcome
  /\ probePc = "idle"
  /\ lastProbe = NoOutcome
  /\ xslFile = "absent"
  /\ xFetched = FALSE
  /\ xCalls = [c \in Callers |-> NoCall]
  /\ xStarted = "none"
  /\ LateInit

Next ==
  \/ \E op \in Ops, remote \in BOOLEAN, xml \in CoordTexts, xo \in XmlOptionSets,
        jo \in JsonOptionSets, now \in Clocks : Request(op, remote, xml, xo, jo, now)
  \/ \E data \in RemoteXmlData \cup RemoteJsonData : RemoteSucceeds(data)
  \/ \E f \in RemoteFailures : RemoteFails(f)
  \/ LocalRuns
  \/ Return
  \/ ProbeStarts
  \/ ProbeSucceeds
  \/ \E f \in RemoteFailures : ProbeFails(f)

Spec == Init /\ [][Next]_vars

\* The program with the progress its own code guarantees: a finished command
\* returns, and a local function that was called runs to its end.  LocalRuns
\* is enabled exactly when pc = "local" and a command leaves pc = "local" after
\* at most two local runs, so []<>(pc # "local") is WF_vars(LocalRuns) written
\* as a state condition.  Nothing makes the remote service answer, and the
\* axios calls set no timeout: no fairness on RemoteSucceeds and RemoteFails.
LiveSpec == Init /\ [][Next]_vars /\ WF_vars(Return) /\ []<>(pc # "local")

\* ------------------------------------------------------------ engine runs
\* The texts the local functions are run on: every way of writing the root
\* (prefix, namespace, schemaVersion, creationDate) over a small body, and every
\* event list of up to MaxEvents events under a version-1 and a version-2 root.
EventTags ==
  {<<"epcis", "ObjectEvent">>, <<"", "ObjectEvent">>,
   <<"epcis", "AggregationEvent">>, <<"", "AggregationEvent">>}

EventSeqs == UNION {[1..n -> EventTags] : n \in 0..MaxEvents}

EventsOf(tags) ==
  [i \in 1..Len(tags) |-> EventElem(tags[i][1], tags[i][2], "t" \o ToString(i))]

NsDeclName(prefix) == IF prefix = "" THEN "xmlns" ELSE "xmlns:" \o prefix

RootOf(prefix, local, ns, schemaVersion, creationDate, kids) ==
  Elem(prefix, local,
       (IF ns = NULL THEN <<>> ELSE <<Attr(NsDeclName(prefix), ns)>>)
         \o (IF creationDate = NULL THEN <<>> ELSE <<Attr("creationDate", creationDate)>>)
         \o (IF schemaVersion = NULL THEN <<>> ELSE <<Attr("schemaVersion", schemaVersion)>>)
         \o <<Attr("xmlns:xsi", "http://www.w3.org/2001/XMLSchema-instance")>>,
       kids, "")

SmallBodies ==
  {<<>>,
   <<Elem("", "EPCISHeader", <<Attr("id", "h1")>>, <<>>, ""),
     BodyOf("epcis", <<EventElem("epcis", "ObjectEvent", "t1")>>)>>}

RootTexts ==
  {XmlText(RootOf(p, l, ns, sv, cd, ks)) :
     p \in {"epcis", "", "ns2"}, l \in {"EPCISDocument"},
     ns \in {oldNamespace, newNamespace, NULL},
     sv \in {NULL, "1.2", "2.0"}, cd \in {NULL, "2024-02-02T00:00:00Z"},
     ks \in SmallBodies}

EventTexts ==
  {XmlText(RootOf("epcis", "EPCISDocument", ns, "1.2", NULL, <<BodyOf("", EventsOf(tags))>>)) :
     ns \in {oldNamespace, newNamespace}, tags \in EventSeqs}

\* Documents without events: a body without EventList, an empty EventList, an
\* EventList that holds something other than an event.
EmptyTexts ==
  {XmlText(RootOf("epcis", "EPCISDocument", newNamespace, "2.0", NULL, ks)) :
     ks \in {<<Elem("epcis", "EPCISBody", <<>>, <<>>, "")>>,
             <<Elem("", "EPCISHeader", <<>>, <<>>, "")>>,
             <<BodyOf("epcis", <<>>)>>,
             <<BodyOf("", <<Elem("", "extension", <<>>, <<>>, "x")>>)>>}}

\* Documents with comment nodes among the children of the root.
CommentTexts ==
  {XmlText(RootOf("epcis", "EPCISDocument", ns, "1.2", NULL,
                  <<Comment("generated"),
                    BodyOf("epcis", <<EventElem("epcis", "ObjectEvent", "t1")>>),
                    Comment("end")>>)) :
     ns \in {oldNamespace, newNamespace}}

\* Events that differ in the fields they carry: all of them, none, fields with
\* empty text, a field only inside an extension element, and the ways of
\* writing an epcList.
Leaf(name, text) == Elem("", name, <<>>, <<>>, text)

EpcListOf(texts) == Elem("", "epcList", <<>>, [i \in 1..Len(texts) |-> Leaf("epc", texts[i])], "")

FieldVariants ==
  {<<Leaf("eventTime", "2024-01-01T00:00:00Z"), Leaf("eventTimeZoneOffset", "+00:00"),
     EpcListOf(<<"urn:epc:id:sgtin:1", "urn:epc:id:sgtin:2">>),
     Leaf("action", "ADD"), Leaf("bizStep", "shipping"), Leaf("disposition", "in_transit"),
     Elem("", "readPoint", <<>>, <<Leaf("id", "urn:epc:id:sgln:1")>>, ""),
     Elem("", "bizLocation", <<>>, <<Leaf("id", "urn:epc:id:sgln:2")>>, "")>>,
   <<>>,
   <<Leaf("eventTime", ""), Leaf("action", ""),
     Elem("", "readPoint", <<>>, <<>>, ""),
     Elem("", "bizLocation", <<>>, <<Leaf("id", "")>>, "")>>,
   <<Leaf("eventTime", "2024-01-01T00:00:00Z"),
     Elem("", "extension", <<>>, <<Leaf("action", "OBSERVE")>>, "")>>,
   <<Leaf("eventTime", "2024-01-01T00:00:00Z"), EpcListOf(<<>>)>>,
   <<EpcListOf(<<"", "urn:epc:id:sgtin:2">>), Leaf("action", "ADD")>>,
   <<EpcListOf(<<"urn:epc:id:sgtin:2", "urn:epc:id:sgtin:1", "urn:epc:id:sgtin:2">>)>>}

FieldTexts ==
  {XmlText(RootOf("epcis", "EPCISDocument", newNamespace, "2.0", NULL,
                  <<BodyOf("epcis", <<Elem("epcis", name, <<>>, kids, "")>>)>>)) :
     name \in {"ObjectEvent", "TransactionEvent"}, kids \in FieldVariants}

\* Documents with an event element below the children of the EventList: in a
\* wrapper element, in an event of another type, in an event of its own type.
NestedBodies(p) ==
  {<<Elem("", "extension", <<>>, <<EventElem(p, "ObjectEvent", "n1")>>, "")>>,
   <<Elem("epcis", "ObjectEvent", <<>>,
          <<Leaf("eventTime", "t1"), Leaf("action", "ADD"),
            EventElem(p, "AggregationEvent", "n1")>>, "")>>,
   <<EventElem("epcis", "AggregationEvent", "t1"),
     Elem("epcis", "ObjectEvent", <<>>,
          <<Leaf("eventTime", "t2"), Leaf("action", "ADD"),
            EventElem(p, "ObjectEvent", "n1")>>, "")>>}

NestedTexts ==
  {XmlText(RootOf("epcis", "EPCISDocument", newNamespace, "2.0", NULL, <<BodyOf("epcis", ks)>>)) :
     ks \in NestedBodies("epcis") \cup NestedBodies("")}

EngineTexts ==
  RootTexts \cup EventTexts \cup EmptyTexts \cup CommentTexts \cup FieldTexts \cup NestedTexts
    \cup {ExampleV1, NotEpcis, Malformed}

\* What an async function hands to its caller at once: a promise, which
\* settles later with what the body returned or threw.
Promise(settles) == [fmt |-> "promise", settles |-> settles]

\* xml-converter.ts lines 99-113: the call of the async function is returned
\* as it is, cast to string.  An async function does not throw to its caller,
\* so the catch block of lines 107-112 is never entered.
convertToEpcis20XmlSync(xml, options) == Ok(Promise(convertToEpcis20Xml(xml, options)))

\* json-converter.ts lines 193-200: the body is one throw of a plain Error.
convertToJsonLdSync(xml, options) ==
  Thrown("Error", "Synchronous conversion is not implemented in this version")

\* An engine run calls the async functions or the ...Sync functions.
EngineMigrateSync ==
  /\ eMig = NoOutcome
  /\ eJson = NoOutcome
  /\ eSync.xml = NoOutcome
  /\ eSync' = [eSync EXCEPT !.xml = convertToEpcis20XmlSync(eIn, eXo)]
  /\ UNCHANGED <<coordVars, engineVars, probeVars, xsltVars, tCalls, eAgain, uiVars>>

EngineProjectSync ==
  /\ eMig = NoOutcome
  /\ eJson = NoOutcome
  /\ eSync.json = NoOutcome
  /\ eSync' = [eSync EXCEPT !.json = convertToJsonLdSync(eIn, eJo)]
  /\ UNCHANGED <<coordVars, engineVars, probeVars, xsltVars, tCalls, eAgain, uiVars>>

\* convertToEpcis20Xml(xml, options) is called on the input.
EngineMigrate ==
  /\ eSync = NoSync
  /\ eMig = NoOutcome
  /\ eJson = NoOutcome
  /\ eMig' = convertToEpcis20Xml(eIn, eXo)
  /\ UNCHANGED <<restVars, impl, pc, req, step, cur, calls, result, clock, eIn, eXo, eJo, eJson>>

\* convertToEpcis20Xml(xml, options) is called on the text it returned.
EngineMigrateAgain ==
  /\ eMig.kind = "ok"
  /\ eAgain = NoOutcome
  /\ eAgain' = convertToEpcis20Xml(eMig.value, eXo)
  /\ UNCHANGED <<coordVars, engineVars, probeVars, xsltVars, tCalls, eSync, uiVars>>

\* convertToJsonLd(xml, options) is called: on the input, or on the text the
\* migration returned.
EngineProject ==
  /\ eSync = NoSync
  /\ eJson = NoOutcome
  /\ eMig.kind # "err"
  /\ eJson' = convertToJsonLd(IF eMig = NoOutcome THEN eIn ELSE eMig.value, eJo, clock)
  /\ UNCHANGED <<restVars, impl, pc, req, step, cur, calls, result, clock, eIn, eXo, eJo, eMig>>

EngineInit ==
  /\ impl = "fallback"
  /\ pc = "idle"
  /\ req = NoReq
  /\ step = "none"
  /\ cur = NoRoot
  /\ calls = <<>>
  /\ result = NoOutcome
  /\ clock \in Clocks
  /\ eIn \in EngineTexts
  /\ eXo \in XmlOptionSets
  /\ eJo \in JsonOptionSets
  /\ eMig = NoOutcome
  /\ eJson = NoOutcome
  /\ probePc = "idle"
  /\ lastProbe = NoOutcome
  /\ xslFile = "absent"
  /\ xFetched = FALSE
  /\ xCalls = [c \in Callers |-> NoCall]
  /\ xStarted = "none"
  /\ LateInit

EngineNext ==
  EngineMigrate \/ EngineMigrateAgain \/ EngineProject \/ EngineMigrateSync \/ EngineProjectSync

EngineSpec == EngineInit /\ [][EngineNext]_vars

\* =================================================================== claims
Finished == pc \in {"done", "failed"}

IsRemoteFailure(c) == c.backend = "remote" /\ c.out.kind = "err"

\* C1: through the client, when every remote call failed and every local call
\* succeeded, the command resolves with the local function's result.
C1_AllRemoteFailLocalResult ==
  (/\ Finished
   /\ req.remote
   /\ \A i \in 1..Len(calls) : calls[i].backend = "remote" => calls[i].out.kind = "err"
   /\ \A i \in 1..Len(calls) : calls[i].backend = "local" => calls[i].out.kind = "ok")
  => /\ pc = "done"
     /\ calls # <<>>
     /\ calls[Len(calls)].backend = "local"
     /\ result = calls[Len(calls)].out

\* C2: a command that asked for local execution makes no remote call in any of
\* its steps and is never waiting on the remote backend.
C2_LocalOnlyNeverRemote ==
  (pc # "idle" /\ ~req.remote)
  => /\ pc # "remote"
     /\ \A i \in 1..Len(calls) : calls[i].backend = "local"

C2_Witness ==
  /\ pc = "done"
  /\ ~req.remote
  /\ req.op = "direct"
  /\ Len(calls) = 2

\* C3: a failed remote call is followed by the local call of the same step, and
\* an error the caller gets is the error of a local call.
C3_RemoteFailureNeverSurfaces ==
  Finished
  => /\ \A i \in 1..Len(calls) :
          IsRemoteFailure(calls[i])
          => /\ i < Len(calls)
             /\ calls[i + 1].backend = "local"
             /\ calls[i + 1].step = calls[i].step
     /\ pc = "failed"
          => /\ calls[Len(calls)].backend = "local"
             /\ result = calls[Len(calls)].out

\* C4: a direct conversion through the client never makes the single
\* version-1-to-JSON call; when it is done a migrate call came before a project
\* call, and each failed remote call was followed by the local call of its step.
C4_DirectIsTwoSteps ==
  (req.op = "direct" /\ req.remote)
  => /\ \A i \in 1..Len(calls) : calls[i].step # "direct"
     /\ pc = "done"
          => \E i, j \in 1..Len(calls) :
               i < j /\ calls[i].step = "migrate" /\ calls[j].step = "project"
     /\ Finished
          => \A i \in 1..Len(calls) :
               IsRemoteFailure(calls[i])
               => i < Len(calls) /\ calls[i + 1].backend = "local"
                  /\ calls[i + 1].step = calls[i].step

\* C5: a finished command has a text or one ValidationError or
\* TransformationError with a message, never both and never another error; an
\* exception of the parser inside the local migration comes out as a
\* TransformationError that carries its message.
C5_TextOrTypedError ==
  /\ Finished
       => \/ /\ pc = "done"
             /\ result.kind = "ok"
             /\ result.value.fmt \in {"xml", "json"}
          \/ /\ pc = "failed"
             /\ result.kind = "err"
             /\ result.type \in {"ValidationError", "TransformationError"}
             /\ result.message # ""
  /\ \A i \in 1..Len(calls) :
       (/\ calls[i].backend = "local"
        /\ calls[i].step = "migrate"
        /\ calls[i].input.parse = "throws"
        /\ ~StepXmlOptions(req).validateXml)
       => calls[i].out = TransformationError("Failed to convert XML: "
                                             \o calls[i].input.parseMessage)

C5_Witness ==
  /\ pc = "failed"
  /\ calls # <<>>
  /\ calls[Len(calls)].backend = "local"
  /\ calls[Len(calls)].input.parse = "throws"
  /\ result.type = "TransformationError"

\* C6: a ValidationError thrown inside a local function is what that function
\* throws and what the caller gets, and no call follows it.
C6_ValidationErrorUnwrapped ==
  \A i \in 1..Len(calls) :
    LET c   == calls[i]
        raw == IF c.step = "migrate" THEN XmlTryBlock(c.input, StepXmlOptions(req))
               ELSE JsonTryBlock(c.input, req.jsonOptions, clock)
    IN (c.backend = "local" /\ raw.kind = "err" /\ raw.type = "ValidationError")
       => /\ c.out = raw
          /\ i = Len(calls)
          /\ pc = "failed"
          /\ result = raw

C6_Witness ==
  /\ pc = "failed"
  /\ impl = "fallback"
  /\ req.remote
  /\ Len(calls) = 2
  /\ calls[1].backend = "remote"
  /\ calls[2].backend = "local"
  /\ result.type = "ValidationError"

\* C7: the local projection rejects, with a ValidationError, a text whose root
\* is in the version-1 namespace or is not an EPCISDocument.
C7_ProjectChecksDocumentType ==
  \A i \in 1..Len(calls) :
    (/\ calls[i].backend = "local"
     /\ calls[i].step = "project"
     /\ calls[i].input.parse = "ok"
     /\ \/ namespaceURI(calls[i].input.root) = oldNamespace
        \/ calls[i].input.root.local # "EPCISDocument")
    => calls[i].out.kind = "err" /\ calls[i].out.type = "ValidationError"

\* ------------------------------------------------------ claims on the engine
ChildElements(e) == SelectSeq(e.kids, LAMBDA k : k.kind = "elem")

IsEpcisDocument(xml) == xml.parse = "ok" /\ xml.root.local = "EPCISDocument"

ValidV1(xml) == IsEpcisDocument(xml) /\ namespaceURI(xml.root) = oldNamespace

ValidV2(xml) == IsEpcisDocument(xml) /\ namespaceURI(xml.root) = newNamespace

AttrSet(e) == {<<e.attrs[i].name, e.attrs[i].value>> : i \in 1..Len(e.attrs)}

OtherAttrs(e, name) == {a \in AttrSet(e) : a[1] # name}

\* C8: migrating a valid version-1 document succeeds; the root of the result is
\* in the version-2 namespace, has schemaVersion 2.0 and has the child elements
\* of the input's root, unchanged and in order.
C8_MigrateV1 ==
  (eMig # NoOutcome /\ ValidV1(eIn))
  => /\ eMig.kind = "ok"
     /\ namespaceURI(eMig.value.root) = newNamespace
     /\ getAttribute(eMig.value.root, "schemaVersion") = "2.0"
     /\ ChildElements(eMig.value.root) = ChildElements(eIn.root)

ProjectedText == IF eMig = NoOutcome THEN eIn ELSE eMig.value

ListedEvents(xml) ==
  LET lists == SelectSeq(Descendants(xml.root), LAMBDA d : d.local = "EventList")
  IN IF lists = <<>> THEN <<>> ELSE ChildElements(lists[1])

TimesOf(events) == [i \in 1..Len(events) |-> getElementTextContent(events[i], "eventTime")]

FieldOr(obj, k, default) ==
  IF \E i \in 1..Len(obj) : obj[i].k = k
  THEN obj[CHOOSE i \in 1..Len(obj) : obj[i].k = k].v
  ELSE default

\* C10: for a document of N ObjectEvents and M AggregationEvents the eventList
\* has N+M records: the ObjectEvents in document order with type ObjectEvent,
\* then the AggregationEvents in document order with type AggregationEvent.
C10_ObjectThenAggregation ==
  (eJson # NoOutcome /\ ProjectedText.parse = "ok" /\ IsEpcisDocument(ProjectedText))
  => /\ eJson.kind = "ok"
     /\ LET events  == ListedEvents(ProjectedText)
            objects == SelectSeq(events, LAMBDA e : e.local = "ObjectEvent")
            aggrs   == SelectSeq(events, LAMBDA e : e.local = "AggregationEvent")
            records == eJson.value.json.epcisBody[1].eventList
        IN /\ Len(records) = Len(objects) + Len(aggrs)
           /\ \A i \in 1..Len(records) :
                FieldOr(records[i], "type", NULL)
                  = (IF i <= Len(objects) THEN "ObjectEvent" ELSE "AggregationEvent")
           /\ [i \in 1..Len(records) |-> FieldOr(records[i], "eventTime", NULL)]
                = TimesOf(objects) \o TimesOf(aggrs)

\* -------------------------------------------------------------- projection
IsEventElement(d) == d.local \in EventNames

\* A text that parses, without parsererror, and has no event element anywhere.
ZeroEvents(xml) ==
  /\ xml.parse = "ok"
  /\ validateXml(xml)
  /\ SelectSeq(Descendants(xml.root), IsEventElement) = <<>>

HasBody(xml) == \E i \in 1..Len(Descendants(xml.root)) : Descendants(xml.root)[i].local = "EPCISBody"

HasEventList(xml) == \E i \in 1..Len(Descendants(xml.root)) : Descendants(xml.root)[i].local = "EventList"

\* C11: projecting a well-formed document that has no event element, with or
\* without EPCISBody and EventList, succeeds, and the output has epcisBody with
\* an eventList that is the empty list.
C11_ZeroEventsEmptyList ==
  (eJson # NoOutcome /\ ZeroEvents(ProjectedText))
  => /\ eJson.kind = "ok"
     /\ eJson.value.json.epcisBody = <<[eventList |-> <<>>]>>

C11_Witness ==
  /\ eJson.kind = "ok"
  /\ ZeroEvents(ProjectedText)
  /\ ~HasBody(ProjectedText)
  /\ IsEpcisDocument(ProjectedText)

\* C12: a projection that succeeded, through either backend, has no @context
\* when includeContext is false and has the fixed context URI when it is true.
C12_ContextFollowsOption ==
  (pc = "done" /\ result.kind = "ok" /\ result.value.fmt = "json")
  => result.value.json.context
       = (IF req.jsonOptions.includeContext THEN <<ContextUri>> ELSE <<>>)

\* ---------------------------------------------------------------- migration
ChildComments(e) == SelectSeq(e.kids, LAMBDA k : k.kind = "comment")

\* C13: in the migration of a version-1 document the comment nodes among the
\* children of the root are dropped when preserveComments is false and copied
\* when it is true.
C13_CommentsFollowOption ==
  (eMig.kind = "ok" /\ ValidV1(eIn))
  => ChildComments(eMig.value.root)
       = (IF eXo.preserveComments THEN ChildComments(eIn.root) ELSE <<>>)

\* The attribute names that declare a namespace in the sample documents.
NsDeclNames == {NsDeclName(p) : p \in {"", "epcis", "ns2", "xsi"}}

\* C14: in the migration of a version-1 document every attribute of the old
\* root is on the new root with its name and value, except that no namespace
\* declaration of the new root names the version-1 namespace, the root's own
\* declaration names the version-2 namespace, and schemaVersion is 2.0.
C14_AttributesCopied ==
  (eMig.kind = "ok" /\ ValidV1(eIn))
  => LET old == eIn.root
         new == eMig.value.root
     IN /\ \A i \in 1..Len(old.attrs) :
             (old.attrs[i].name # "schemaVersion" /\ old.attrs[i].value # oldNamespace)
             => getAttribute(new, old.attrs[i].name) = old.attrs[i].value
        /\ \A i \in 1..Len(new.attrs) :
             new.attrs[i].name \in NsDeclNames => new.attrs[i].value # oldNamespace
        /\ namespaceURI(new) = newNamespace
        /\ getAttribute(new, "schemaVersion") = "2.0"

\* ------------------------------------------------------------ event records
CommonFields ==
  {"eventTime", "eventTimeZoneOffset", "action", "bizStep", "disposition",
   "readPoint", "bizLocation", "epcList"}

HasChild(e, name) == \E i \in 1..Len(e.kids) : e.kids[i].kind = "elem" /\ nodeName(e.kids[i]) = name

HasField(obj, k) == \E i \in 1..Len(obj) : obj[i].k = k

FieldOf(obj, k) == obj[CHOOSE i \in 1..Len(obj) : obj[i].k = k]

\* The projection succeeded on a document whose events are all written with
\* the epcis prefix and are of one type: record i is then the record of the
\* i-th event of the EventList.
RecordsFollowEvents ==
  /\ eJson.kind = "ok"
  /\ ProjectedText.parse = "ok"
  /\ LET events == ListedEvents(ProjectedText)
     IN /\ \A i \in 1..Len(events) : events[i].prefix = "epcis" /\ events[i].local = events[1].local
        /\ Len(eJson.value.json.epcisBody[1].eventList) = Len(events)

Records == eJson.value.json.epcisBody[1].eventList

\* C15: a common field is in an event's record only if the event element has
\* the child element of that name, and a field in a record is never null and
\* never the empty string.
C15_FieldsOnlyFromChildren ==
  RecordsFollowEvents
  => \A i \in 1..Len(Records) :
       /\ \A k \in CommonFields :
            HasField(Records[i], k) => HasChild(ListedEvents(ProjectedText)[i], k)
       /\ \A j \in 1..Len(Records[i]) :
            /\ Records[i][j].t \in {"str", "obj", "list"}
            /\ Records[i][j].t \in {"str", "obj"}
                 => Records[i][j].v # "" /\ Records[i][j].v # NULL

\* The epcList elements inside an event, and the epc elements inside a container.
Containers(event) == SelectSeq(Descendants(event), LAMBDA d : nodeName(d) = "epcList")

EpcsOf(container) == SelectSeq(Descendants(container), LAMBDA d : nodeName(d) = "epc")

TextFields == {"eventTime", "eventTimeZoneOffset", "action", "bizStep", "disposition"}

\* The record r carries the type of the event e and its common text fields.
RecordOf(r, e) ==
  /\ HasField(r, "type")
  /\ FieldOf(r, "type").v = e.local
  /\ \A k \in TextFields :
       getElementTextContent(e, k) # NULL
       => HasField(r, k) /\ FieldOf(r, k).v = getElementTextContent(e, k)

\* C17: for a valid version-1 document the migration succeeds, and the
\* projection of its result succeeds with type EPCISDocument, schemaVersion
\* 2.0 and one record per event element, each with the event's type and
\* fields; the one-ObjectEvent example gives exactly {type, eventTime, action}.
C17_MigrateThenProject ==
  (eMig # NoOutcome /\ ValidV1(eIn))
  => /\ eMig.kind = "ok"
     /\ eJson # NoOutcome
          => /\ eJson.kind = "ok"
             /\ eJson.value.json.type = "EPCISDocument"
             /\ eJson.value.json.schemaVersion = "2.0"
             /\ LET events == ListedEvents(eIn)
                IN /\ Len(Records) = Len(events)
                   /\ \A i \in 1..Len(events) :
                        \E j \in 1..Len(Records) : RecordOf(Records[j], events[i])
             /\ eIn = ExampleV1
                  => Records = << <<StrField("type", "ObjectEvent"),
                                    StrField("eventTime", "2024-01-01T00:00:00Z"),
                                    StrField("action", "ADD")>> >>

\* ------------------------------------------------------------- connectivity
\* C18: testConnection returns a boolean and never throws, and a command for
\* the remote backend that starts after any connection tests, failed ones
\* included, goes to the remote backend first.
C18_ProbeNeverGates ==
  /\ [](lastProbe \in {NoOutcome, Ok(TRUE), Ok(FALSE)})
  /\ [][(pc = "idle" /\ pc' # "idle" /\ req'.remote) => pc' = "remote"]_vars
  /\ []((pc # "idle" /\ req.remote /\ calls # <<>>) => calls[1].backend = "remote")

C18_Witness ==
  /\ lastProbe = Ok(FALSE)
  /\ probePc = "idle"
  /\ req.remote
  /\ pc = "remote"
  /\ calls = <<>>

\* C19: every remote call has a bounded timeout, so a command that is waiting
\* for the remote backend eventually is done or failed.
C19_RemoteCallEnds == (pc = "remote") ~> (pc \in {"done", "failed"})

\* --------------------------------------------------------------- stylesheet
\* C20: a call whose download of the stylesheet failed ends with a
\* TransformationError, and a call that found a cached file nobody was writing
\* and goes on to the transformation has read a whole stylesheet that a
\* finished download left there.
C20_NoStaleStylesheet ==
  \A c \in Callers :
    /\ (xCalls[c].fetch = "failed" /\ xCalls[c].pc \in {"done", "failed"})
         => /\ xCalls[c].pc = "failed"
            /\ xCalls[c].out.type = "TransformationError"
    /\ (xCalls[c].pc \in {"transform", "done"} /\ xCalls[c].found = "closed")
         => xCalls[c].used = "complete" /\ xFetched

\* ------------------------------------------------------ steps of a command
StepCalls(s, backend) ==
  {i \in 1..Len(calls) : calls[i].step = s /\ calls[i].backend = backend}

\* C25: in a migrate or project step of a command sent to the client, the
\* remote backend is called at most once and the local function at most once,
\* the local call comes right after the failed remote call of the same step,
\* and after a remote call that succeeded there is no local call of that step:
\* the step is over with the remote result.
C25_RemoteThenLocalOnce ==
  (req.remote /\ pc # "idle")
  => \A s \in {"migrate", "project"} :
       /\ Cardinality(StepCalls(s, "remote")) <= 1
       /\ Cardinality(StepCalls(s, "local")) <= 1
       /\ \A i \in StepCalls(s, "local") :
            i > 1 /\ calls[i - 1].step = s /\ IsRemoteFailure(calls[i - 1])
       /\ \A i \in StepCalls(s, "remote") :
            calls[i].out.kind = "ok"
            => /\ StepCalls(s, "local") = {}
               /\ i = Len(calls)
                    => IF req.op = "direct" /\ s = "migrate"
                       THEN pc = "remote" /\ step = "project" /\ cur = calls[i].out.value
                       ELSE pc = "done" /\ result = calls[i].out

C25_Witness ==
  /\ req.remote
  /\ req.op = "direct"
  /\ pc = "done"
  /\ Len(calls) = 3
  /\ IsRemoteFailure(calls[1])
  /\ calls[2].backend = "local" /\ calls[2].step = "migrate"
  /\ calls[3].backend = "remote" /\ calls[3].step = "project"

\* The axios failure a remote call was logged with.
FailureOf(call) == CHOOSE f \in RemoteFailures : f.message = call.out.message

\* What a step that ended with the failed call threw to the command: the local
\* function's error, or the error the client's catch block made of the failure.
StepError(call) ==
  IF call.backend = "local" THEN call.out
  ELSE IF impl = "api" THEN ApiCatch(FailureOf(call))
  ELSE QCatch(call.step, FailureOf(call))

MigrateCalls == {i \in 1..Len(calls) : calls[i].step = "migrate"}

ProjectCalls == {i \in 1..Len(calls) : calls[i].step = "project"}

\* C26: in a direct conversion every project call comes after a migrate call
\* that returned, with no migrate call in between, and is given exactly the
\* text that call returned; while the migrate step runs no project call was
\* made; and when the migrate step failed there is no project call and the
\* command fails with the migrate step's error.
C26_ProjectAfterMigrate ==
  (req.op = "direct" /\ pc # "idle")
  => /\ \A j \in ProjectCalls :
          /\ j > 1
          /\ \A i \in MigrateCalls : i < j
          /\ LET i == CHOOSE m \in MigrateCalls : \A n \in MigrateCalls : n <= m
             IN calls[i].out.kind = "ok" /\ calls[j].input = calls[i].out.value
     /\ step = "migrate" => ProjectCalls = {}
     /\ step = "project"
          => /\ MigrateCalls # {}
             /\ (ProjectCalls = {} /\ pc \in {"remote", "local"})
                  => cur = calls[Len(calls)].out.value
     /\ (pc = "failed" /\ step = "migrate")
          => /\ ProjectCalls = {}
             /\ calls # <<>>
             /\ calls[Len(calls)].out.kind = "err"
             /\ result = StepError(calls[Len(calls)])

C26_Witness ==
  /\ req.op = "direct"
  /\ pc = "done"
  /\ ProjectCalls # {}
  /\ MigrateCalls # {}
  /\ calls[1].input # calls[Len(calls)].input

\* ------------------------------------------------------ the validateXml flag
\* C24: the migration checks its input only when options.validateXml is true:
\* with the flag false it never ends with a ValidationError; with the flag true
\* a text that is not well-formed, or whose root is not EPCISDocument, ends with
\* a ValidationError.
C24_ValidationFollowsFlag ==
  eMig # NoOutcome
  => /\ ~eXo.validateXml => ~(eMig.kind = "err" /\ eMig.type = "ValidationError")
     /\ (eXo.validateXml /\ ~IsEpcisDocument(eIn))
          => eMig.kind = "err" /\ eMig.type = "ValidationError"

\* ------------------------------------------------- which elements are events
\* The children of the EventList that are event elements, and the eventTime
\* each record was given.
ListedEventElements(xml) == SelectSeq(ListedEvents(xml), IsEventElement)

RecordTimes == {FieldOr(Records[i], "eventTime", NULL) : i \in 1..Len(Records)}

\* C28: the eventList has exactly one record per child of the EventList that is
\* an event element, and no record for an event element nested deeper, in a
\* wrapper or in another event.
C28_OnlyChildrenOfEventList ==
  (eJson.kind = "ok" /\ ProjectedText.parse = "ok")
  => LET events == ListedEventElements(ProjectedText)
     IN /\ Len(Records) = Len(events)
        /\ RecordTimes = {getElementTextContent(events[i], "eventTime") : i \in 1..Len(events)}

\* Every event element of the document, wherever it is.
AllEventElements(xml) == SelectSeq(Descendants(xml.root), IsEventElement)

\* C29: every record of the eventList has a type, the type is one of the five
\* event names, and it is the local name of the event element the record was
\* made from (the one whose eventTime the record carries), whether the element
\* is written with the epcis prefix or without a prefix.
C29_TypeIsLocalName ==
  (eJson.kind = "ok" /\ ProjectedText.parse = "ok")
  => \A i \in 1..Len(Records) :
       /\ HasField(Records[i], "type")
       /\ FieldOf(Records[i], "type").t = "str"
       /\ FieldOf(Records[i], "type").v \in EventNames
       /\ LET events == AllEventElements(ProjectedText)
          IN \E j \in 1..Len(events) :
               /\ getElementTextContent(events[j], "eventTime")
                    = FieldOr(Records[i], "eventTime", NULL)
               /\ events[j].local = FieldOf(Records[i], "type").v

\* -------------------------------------------------------------- idempotence
\* C27: the migration is idempotent on valid documents of either version:
\* migrating the text a migration returned succeeds and returns a document with
\* the same root name and namespace, the same attributes and the same children
\* in the same order.
C27_MigrateIdempotent ==
  ((ValidV1(eIn) \/ ValidV2(eIn)) /\ eMig.kind = "ok" /\ eAgain # NoOutcome)
  => /\ eAgain.kind = "ok"
     /\ nodeName(eAgain.value.root) = nodeName(eMig.value.root)
     /\ namespaceURI(eAgain.value.root) = namespaceURI(eMig.value.root)
     /\ eAgain.value.root.attrs = eMig.value.root.attrs
     /\ eAgain.value.root.kids = eMig.value.root.kids

C27_Witness ==
  /\ ValidV1(eIn)
  /\ eXo.validateXml
  /\ eAgain.kind = "ok"
  /\ eMig.value # eIn
  /\ Len(eIn.root.kids) = 3

\* ------------------------------------------------------ the Sync functions
\* C23: each of the two ...Sync functions ends as its async counterpart does on
\* the same input and options: it returns the same text, as a string, or it
\* throws the same ValidationError or TransformationError.
C23_SyncSameAsAsync ==
  /\ eSync.xml # NoOutcome
       => /\ eSync.xml = convertToEpcis20Xml(eIn, eXo)
          /\ eSync.xml.kind = "ok" => eSync.xml.value.fmt = "xml"
          /\ eSync.xml.kind = "err"
               => eSync.xml.type \in {"ValidationError", "TransformationError"}
  /\ eSync.json # NoOutcome
       => /\ eSync.json = convertToJsonLd(eIn, eJo, clock)
          /\ eSync.json.kind = "ok" => eSync.json.value.fmt = "json"
          /\ eSync.json.kind = "err"
               => eSync.json.type \in {"ValidationError", "TransformationError"}

\* ------------------------------------------- local functions side by side
\* The server awaits convertToEpcis20Xml or convertToJsonLd once per request
\* (routes.ts lines 40 and 84), so several calls are in progress together.
\* The bodies hold no await; a call is split here at its parse so that every
\* order in which two calls could reach their documents is covered.
ConcTexts == {ExampleV1, ExampleV2, NotEpcis}

ConcXmlOptions == {o \in XmlOptionSets : ~o.preserveComments}

ConcJsonOptions == {o \in JsonOptionSets : o.prettyPrint /\ o.includeContext}

\* The document as if it were kept where every call can reach it: a call
\* builds from the document parsed last.
ParsedDocument_Shared(c) ==
  LET parsed == {d \in Callers : tCalls[d].pc = "parsed"}
  IN tCalls[CHOOSE d \in parsed : \A e \in parsed : d >= e].doc

\* xml-converter.ts line 25, json-converter.ts line 27: const doc, a local of
\* the call, from a parser that is a local of the call as well.
ParsedDocument(c) == tCalls[c].doc

\* What a call returns or throws when it is the only one.
Alone(t) ==
  IF t.op = "migrate" THEN convertToEpcis20Xml(t.xml, t.xmlOptions)
  ELSE convertToJsonLd(t.xml, t.jsonOptions, t.now)

TransformCall(c, op, xml, xo, jo, now) ==
  /\ tCalls[c].pc = "idle"
  /\ tCalls' = [tCalls EXCEPT ![c] = [NoTransform EXCEPT !.pc = "called", !.op = op, !.xml = xml,
                                        !.xmlOptions = xo, !.jsonOptions = jo, !.now = now]]
  /\ UNCHANGED <<coordVars, engineVars, probeVars, xsltVars, eSync, eAgain, uiVars>>

\* new DOMParser().parseFromString(xml, 'application/xml')
TransformParses(c) ==
  /\ tCalls[c].pc = "called"
  /\ tCalls' = [tCalls EXCEPT ![c].pc = "parsed", ![c].doc = tCalls[c].xml]
  /\ UNCHANGED <<coordVars, engineVars, probeVars, xsltVars, eSync, eAgain, uiVars>>

\* The rest of the body: the result is built from the call's document and its
\* options, and the promise settles with it.
TransformBuilds(c) ==
  /\ tCalls[c].pc = "parsed"
  /\ tCalls' = [tCalls EXCEPT ![c].pc = "done",
                   ![c].out = Alone([tCalls[c] EXCEPT !.xml = ParsedDocument(c)])]
  /\ UNCHANGED <<coordVars, engineVars, probeVars, xsltVars, eSync, eAgain, uiVars>>

\* The awaiting route has answered its request.
TransformReturns(c) ==
  /\ tCalls[c].pc = "done"
  /\ tCalls' = [tCalls EXCEPT ![c] = NoTransform]
  /\ UNCHANGED <<coordVars, engineVars, probeVars, xsltVars, eSync, eAgain, uiVars>>

ConcNext ==
  \/ \E c \in Callers, op \in {"migrate", "project"}, xml \in ConcTexts, xo \in ConcXmlOptions,
        jo \in ConcJsonOptions, now \in Clocks : TransformCall(c, op, xml, xo, jo, now)
  \/ \E c \in Callers : TransformParses(c)
  \/ \E c \in Callers : TransformBuilds(c)
  \/ \E c \in Callers : TransformReturns(c)

ConcSpec == XsltInit /\ [][ConcNext]_vars

File(name, content) == [name |-> name, content |-> content]

UiFiles == {File("a.xml", ExampleV1), File("b.xml", ExampleV2), File("c.xml", NotEpcis)}

\* FileUploader.handleFileChange / handleDrop call onFileSelect(file);
\* handleXmlFileSelect line 753 starts readFileAsText(file) and awaits it.
FileSelected(f) ==
  /\ f \notin xmlReads
  /\ xmlReads' = xmlReads \cup {f}
  /\ UNCHANGED <<xmlFile, xmlFileContent, xmlResult, xmlProcessing, xmlJob>>
  /\ UNCHANGED <<coordVars, engineVars, probeVars, xsltVars, tCalls, eSync, eAgain>>

\* reader.onload: lines 754-757.
ReadLoads(f) ==
  /\ f \in xmlReads
  /\ xmlReads' = xmlReads \ {f}
  /\ xmlFile' = f.name
  /\ xmlFileContent' = f.content
  /\ xmlResult' = NoContent
  /\ UNCHANGED <<xmlProcessing, xmlJob>>
  /\ UNCHANGED <<coordVars, engineVars, probeVars, xsltVars, tCalls, eSync, eAgain>>

\* reader.onerror: the catch block of lines 766-772 shows a toast.
ReadFails(f) ==
  /\ f \in xmlReads
  /\ xmlReads' = xmlReads \ {f}
  /\ UNCHANGED <<xmlFile, xmlFileContent, xmlResult, xmlProcessing, xmlJob>>
  /\ UNCHANGED <<coordVars, engineVars, probeVars, xsltVars, tCalls, eSync, eAgain>>

\* The button of lines 1086-1090 is enabled and clicked: handleXmlTransform
\* lines 800-816, up to the await, with the xmlOptions the checkboxes hold.
TransformClicked(options) ==
  /\ xmlFile # NULL
  /\ ~xmlProcessing
  /\ xmlFileContent # NoContent
  /\ xmlProcessing' = TRUE
  /\ xmlJob' = [pc |-> "waiting", content |-> xmlFileContent, options |-> options]
  /\ UNCHANGED <<xmlFile, xmlFileContent, xmlResult, xmlReads>>
  /\ UNCHANGED <<coordVars, engineVars, probeVars, xsltVars, tCalls, eSync, eAgain>>

\* What the server makes of the request: routes.ts line 40.
ServerOutcome(job) == convertToEpcis20Xml(job.content, job.options)

\* The request resolved with data.result: lines 819-827, then finally.
TransformResolves ==
  /\ xmlJob.pc = "waiting"
  /\ ServerOutcome(xmlJob).kind = "ok"
  /\ xmlResult' = ServerOutcome(xmlJob).value
  /\ xmlProcessing' = FALSE
  /\ xmlJob' = NoJob
  /\ UNCHANGED <<xmlFile, xmlFileContent, xmlReads>>
  /\ UNCHANGED <<coordVars, engineVars, probeVars, xsltVars, tCalls, eSync, eAgain>>

\* The request rejected (an error status, or no answer): lines 828-842, then finally.
TransformRejects ==
  /\ xmlJob.pc = "waiting"
  /\ xmlProcessing' = FALSE
  /\ xmlJob' = NoJob
  /\ UNCHANGED <<xmlFile, xmlFileContent, xmlResult, xmlReads>>
  /\ UNCHANGED <<coordVars, engineVars, probeVars, xsltVars, tCalls, eSync, eAgain>>

UiNext ==
  \/ \E f \in UiFiles : FileSelected(f)
  \/ \E f \in UiFiles : ReadLoads(f)
  \/ \E f \in UiFiles : ReadFails(f)
  \/ \E options \in XmlOptionSets : TransformClicked(options)
  \/ TransformResolves
  \/ TransformRejects

UiSpec == XsltInit /\ [][UiNext]_vars

\* C30: on the page, a step that puts a file in place clears the result; a
\* result is installed only by a transform that was started on the content now
\* in place, and is the migration of that content; and the step that ends a
\* transform, with a result or with an error, leaves xmlProcessing false.
C30_ResultOfSelectedFile ==
  [][/\ (xmlFile' # xmlFile \/ xmlFileContent' # xmlFileContent) => xmlResult' = NoContent
     /\ (xmlResult' # xmlResult /\ xmlResult' # NoContent)
          => /\ xmlJob.content = xmlFileContent'
             /\ Ok(xmlResult') = convertToEpcis20Xml(xmlFileContent', xmlJob.options)
     /\ (xmlJob.pc = "waiting" /\ xmlJob'.pc = "none") => ~xmlProcessing']_vars

\* C21: the stylesheet is fetched at most once: a download starts only when
\* none was started before, by any call, and a call reads the file at XSL_PATH
\* (the test of ensureXslTransform, the readFile of line 30) only while no
\* other call's download has it open for writing.
C21_FetchOnce ==
  [][\A c \in Callers :
       /\ (xCalls[c].pc = "download" /\ xCalls'[c].pc = "fetching") => xStarted = "none"
       /\ (\/ xCalls[c].pc = "ensure" /\ xCalls'[c].pc = "read"
           \/ xCalls[c].pc = "read" /\ xCalls'[c].pc = "transform")
            => ~OtherWriter(c)]_vars

====
